---- MODULE Spec2Model ----
(***************************************************************************)
(* Model of pina/operators.py: the differential operators grad, div,       *)
(* nabla and advection over labelled tensors.                              *)
(*                                                                         *)
(* A tensor column is the function it holds on the computational graph, a  *)
(* polynomial in the input coordinates (input column 1 and input column 2);*)
(* its value at a row is that polynomial evaluated at the row's input      *)
(* point.  The differentiation engine returns, for a one-column output,    *)
(* the partial derivative with respect to every input column, itself on    *)
(* the graph so that it can be differentiated again.                       *)
(***************************************************************************)
EXTENDS Integers, Sequences, FiniteSets, TLC

VARIABLES output_, input_, op, components, d, method, velocity_field, result

vars == <<output_, input_, op, components, d, method, velocity_field, result>>

\* Bounds of the model.
MaxDeg == 3      \* highest exponent of one coordinate in a polynomial
MaxRows == 2     \* most rows (evaluation points) of a tensor
MaxLen == 2      \* longest components / d / velocity_field list passed

(***************************************************************************)
(* Polynomials in the two input columns: the graph-connected functions.    *)
(***************************************************************************)
Monos == (0..MaxDeg) \X (0..MaxDeg)

Zero == [m \in Monos |-> 0]

Mono(c, e1, e2) == [m \in Monos |-> IF m = <<e1, e2>> THEN c ELSE 0]

PAdd(p, q) == [m \in Monos |-> p[m] + q[m]]

Bump(m, j) == IF j = 1 THEN <<m[1] + 1, m[2]>> ELSE <<m[1], m[2] + 1>>

\* d p / d (input column j)
Partial(p, j) ==
    [m \in Monos |-> IF m[j] < MaxDeg THEN (m[j] + 1) * p[Bump(m, j)] ELSE 0]

RECURSIVE Pow(_, _)
Pow(b, e) == IF e = 0 THEN 1 ELSE b * Pow(b, e - 1)

Coord(pt, j) == IF j <= Len(pt) THEN pt[j] ELSE 0

RECURSIVE EvalFrom(_, _, _)
EvalFrom(p, pt, k) ==
    IF k >= (MaxDeg + 1) * (MaxDeg + 1) THEN 0
    ELSE LET e1 == k \div (MaxDeg + 1)
             e2 == k % (MaxDeg + 1)
         IN (IF p[<<e1, e2>>] = 0 THEN 0
             ELSE p[<<e1, e2>>] * Pow(Coord(pt, 1), e1) * Pow(Coord(pt, 2), e2))
            + EvalFrom(p, pt, k + 1)

\* value of the function p at the input point pt
Eval(p, pt) == EvalFrom(p, pt, 0)

\* the N x M matrix of values of the columns cols at the input rows
Vals(cols, rows) ==
    [n \in 1..Len(rows) |-> [j \in 1..Len(cols) |-> Eval(cols[j], rows[n])]]

(***************************************************************************)
(* Labels and their formatting.                                            *)
(***************************************************************************)
Distinct(s) == \A i, j \in 1..Len(s) : i # j => s[i] # s[j]

In(l, labels) == \E i \in 1..Len(labels) : labels[i] = l

IndexOf(labels, l) == CHOOSE i \in 1..Len(labels) : labels[i] = l

\* f'd{c}d{di}'
DLabel(c, di) == "d" \o c \o "d" \o di

RECURSIVE Join(_, _)
\* sep.join(labels)
Join(labels, sep) ==
    IF Len(labels) = 0 THEN ""
    ELSE IF Len(labels) = 1 THEN labels[1]
    ELSE labels[1] \o sep \o Join(Tail(labels), sep)

\* str(list of str), as an f-string formats a list: ['u', 'v']
PyStr(ls) == "[" \o Join([i \in 1..Len(ls) |-> "'" \o ls[i] \o "'"], ", ") \o "]"

(***************************************************************************)
(* Optional arguments (None or a value) and operator outcomes.             *)
(***************************************************************************)
NoArg == [given |-> FALSE, val |-> <<>>]

Arg(v) == [given |-> TRUE, val |-> v]

Ok(labels, cols, engine) ==
    [err |-> "ok", site |-> 0, labels |-> labels, cols |-> cols, engine |-> engine]

\* an exception of the given kind raised at (or propagated through) a source line
Fail(kind, line, engine) ==
    [err |-> kind, site |-> line, labels |-> <<>>, cols |-> <<>>, engine |-> engine]

(***************************************************************************)
(* LabelTensor: columns with unique labels.                                *)
(***************************************************************************)
\* labels setter: one label per column, labels unique
SetLabels(cols, labels) ==
    [ok |-> Len(labels) = Len(cols) /\ Distinct(labels),
     labels |-> labels, cols |-> cols]

\* extract(labels): the requested columns, in the requested order
extract(t, ls) ==
    IF (\A i \in 1..Len(ls) : In(ls[i], t.labels)) /\ Distinct(ls)
    THEN [ok |-> TRUE, labels |-> ls,
          cols |-> [i \in 1..Len(ls) |-> t.cols[IndexOf(t.labels, ls[i])]]]
    ELSE [ok |-> FALSE, labels |-> <<>>, cols |-> <<>>]

\* append(other): other's columns after self's
append(a, b) ==
    [ok |-> Distinct(a.labels \o b.labels),
     labels |-> a.labels \o b.labels, cols |-> a.cols \o b.cols]

(***************************************************************************)
(* grad                                                                    *)
(***************************************************************************)
\* torch.autograd.grad(output_, input_, ones, create_graph, allow_unused)[0]:
\* one column per input column, zero where the output does not depend on it
Autograd(out, inp) == [j \in 1..Len(inp.labels) |-> Partial(out.cols[1], j)]

\* variant: component and coordinate swapped in the label
GradLabels_Swapped(fieldname, dd) ==
    [i \in 1..Len(dd) |-> DLabel(dd[i], fieldname)]

\* labels given to the gradient of one scalar field
GradLabels(fieldname, dd) == [i \in 1..Len(dd) |-> DLabel(fieldname, dd[i])]

grad_scalar_output(out, inp, dd) ==
    IF Len(out.labels) # 1 THEN Fail("RuntimeError", 43, 0)
    ELSE IF ~ \A i \in 1..Len(dd) : In(dd[i], inp.labels)
    THEN Fail("RuntimeError", 45, 0)
    ELSE LET raw == [labels |-> inp.labels, cols |-> Autograd(out, inp)]
             ex == extract(raw, dd)
             named == SetLabels(ex.cols, GradLabels(out.labels[1], dd))
         IN IF ~ ex.ok THEN Fail("LabelError", 59, 1)
            ELSE IF ~ named.ok THEN Fail("LabelError", 60, 1)
            ELSE Ok(named.labels, named.cols, 1)

RECURSIVE GradLoop(_, _, _, _, _, _)
\* the loop over components of the vector branch; acc is `gradients` so far
GradLoop(out, inp, cc, dd, i, acc) ==
    IF i > Len(cc)
    THEN IF i = 1 THEN Fail("UnboundLocalError", 91, 0) ELSE acc
    ELSE LET c_output == extract(out, <<cc[i]>>)
             g == grad_scalar_output(c_output, inp, dd)
             ap == append(acc, g)
         IN IF ~ c_output.ok THEN Fail("LabelError", 82, acc.engine)
            ELSE IF g.err # "ok" THEN Fail(g.err, g.site, acc.engine + g.engine)
            ELSE IF i = 1 THEN GradLoop(out, inp, cc, dd, i + 1, g)
            ELSE IF ~ ap.ok THEN Fail("LabelError", 86, acc.engine + g.engine)
            ELSE GradLoop(out, inp, cc, dd, i + 1,
                          Ok(ap.labels, ap.cols, acc.engine + g.engine))

\* variant: the scalar branch accepts any components selection
grad_AnySelection(out, inp, comps, darg) ==
    IF ~ inp.lt THEN Fail("TypeError", 65, 0)
    ELSE LET dd == IF darg.given THEN darg.val ELSE inp.labels
         IN IF Len(out.labels) = 1 THEN grad_scalar_output(out, inp, dd)
            ELSE IF Len(out.labels) >= 2
            THEN GradLoop(out, inp, IF comps.given THEN comps.val ELSE out.labels,
                          dd, 1, Ok(<<>>, <<>>, 0))
            ELSE Fail("NotImplementedError", 89, 0)

grad(out, inp, comps, darg) ==
    IF ~ inp.lt THEN Fail("TypeError", 65, 0)
    ELSE LET dd == IF darg.given THEN darg.val ELSE inp.labels
             cc == IF comps.given THEN comps.val ELSE out.labels
         IN IF Len(out.labels) = 1
            THEN IF cc # out.labels THEN Fail("RuntimeError", 76, 0)
                 ELSE grad_scalar_output(out, inp, dd)
            ELSE IF Len(out.labels) >= 2
            THEN GradLoop(out, inp, cc, dd, 1, Ok(<<>>, <<>>, 0))
            ELSE Fail("NotImplementedError", 89, 0)

(***************************************************************************)
(* div                                                                     *)
(***************************************************************************)
\* an outcome together with the number of grad calls the operator made
Counted(r, grads) ==
    [err |-> r.err, site |-> r.site, labels |-> r.labels, cols |-> r.cols,
     engine |-> r.engine, grads |-> grads]

RECURSIVE SumCols(_, _, _)
SumCols(cols, from, to) ==
    IF from > to THEN Zero ELSE PAdd(cols[from], SumCols(cols, from + 1, to))

RECURSIVE DivLoop_CrossTerms(_, _, _, _, _, _)
\* variant: every coordinate's derivative of component i is accumulated
DivLoop_CrossTerms(grad_output, cc, dd, i, acc, labels) ==
    IF i > Len(cc) THEN Ok(<<Join(labels, "+")>>, <<acc>>, grad_output.engine)
    ELSE DivLoop_CrossTerms(grad_output, cc, dd, i + 1,
             PAdd(acc, SumCols(grad_output.cols, (i - 1) * Len(dd) + 1,
                               i * Len(dd))),
             Append(labels, DLabel(cc[i], dd[i])))

RECURSIVE DivLoop(_, _, _, _, _, _)
\* the loop over the zipped (c, d) pairs; acc is div[:, 0], labels the terms
DivLoop(grad_output, cc, dd, i, acc, labels) ==
    IF i > Len(cc) THEN Ok(<<Join(labels, "+")>>, <<acc>>, grad_output.engine)
    ELSE LET c_fields == DLabel(cc[i], dd[i])
             ex == extract(grad_output, <<c_fields>>)
         IN IF ~ ex.ok THEN Fail("LabelError", 136, grad_output.engine)
            ELSE DivLoop(grad_output, cc, dd, i + 1,
                         PAdd(acc, ex.cols[1]), Append(labels, c_fields))

\* variant: only the output's column count is checked, not len(components)
div_NoComponentCount(out, inp, comps, darg) ==
    IF ~ inp.lt THEN Counted(Fail("TypeError", 117, 0), 0)
    ELSE LET dd == IF darg.given THEN darg.val ELSE inp.labels
             cc == IF comps.given THEN comps.val ELSE out.labels
             grad_output == grad(out, inp, Arg(cc), Arg(dd))
         IN IF Len(out.labels) < 2
            THEN Counted(Fail("ValueError", 126, 0), 0)
            ELSE IF Len(cc) # Len(dd)
            THEN Counted(Fail("ValueError", 129, 0), 0)
            ELSE IF grad_output.err # "ok" THEN Counted(grad_output, 1)
            ELSE Counted(DivLoop(grad_output, cc, dd, 1, Zero, <<>>), 1)

div(out, inp, comps, darg) ==
    IF ~ inp.lt THEN Counted(Fail("TypeError", 117, 0), 0)
    ELSE LET dd == IF darg.given THEN darg.val ELSE inp.labels
             cc == IF comps.given THEN comps.val ELSE out.labels
             grad_output == grad(out, inp, Arg(cc), Arg(dd))
         IN IF Len(out.labels) < 2 \/ Len(cc) < 2
            THEN Counted(Fail("ValueError", 126, 0), 0)
            ELSE IF Len(cc) # Len(dd)
            THEN Counted(Fail("ValueError", 129, 0), 0)
            ELSE IF grad_output.err # "ok" THEN Counted(grad_output, 1)
            ELSE Counted(DivLoop(grad_output, cc, dd, 1, Zero, <<>>), 1)

(***************************************************************************)
(* nabla.  An element of components or d is a label or a list of labels.   *)
(***************************************************************************)
Single(l) == [list |-> FALSE, v |-> <<l>>]

List(ls) == [list |-> TRUE, v |-> ls]

\* the element as an f-string or a label comparison sees it
AsStr(item) == IF item.list THEN PyStr(item.v) ELSE item.v[1]

Strs(items) == [i \in 1..Len(items) |-> AsStr(items[i])]

Singles(labels) == [i \in 1..Len(labels) |-> Single(labels[i])]

RECURSIVE NablaScalarLoop_AllTerms(_, _, _, _, _, _, _)
\* variant: every column of the second gradient is accumulated
NablaScalarLoop_AllTerms(grad_output, inp, dd, i, acc, engine, grads) ==
    IF i > Len(grad_output.labels) THEN Counted(Ok(<<>>, <<acc>>, engine), grads)
    ELSE LET gg == grad(grad_output, inp, Arg(<<grad_output.labels[i]>>), Arg(dd))
         IN IF gg.err # "ok"
            THEN Counted(Fail(gg.err, gg.site, engine + gg.engine), grads + 1)
            ELSE NablaScalarLoop_AllTerms(grad_output, inp, dd, i + 1,
                     PAdd(acc, SumCols(gg.cols, 1, Len(gg.cols))),
                     engine + gg.engine, grads + 1)

RECURSIVE NablaScalarLoop(_, _, _, _, _, _, _)
\* the loop over the first gradient's labels; acc is result[:, 0]
NablaScalarLoop(grad_output, inp, dd, i, acc, engine, grads) ==
    IF i > Len(grad_output.labels) THEN Counted(Ok(<<>>, <<acc>>, engine), grads)
    ELSE LET gg == grad(grad_output, inp, Arg(<<grad_output.labels[i]>>), Arg(dd))
         IN IF gg.err # "ok"
            THEN Counted(Fail(gg.err, gg.site, engine + gg.engine), grads + 1)
            ELSE NablaScalarLoop(grad_output, inp, dd, i + 1,
                                 PAdd(acc, gg.cols[i]), engine + gg.engine,
                                 grads + 1)

NablaScalar(out, inp, cc, dd) ==
    LET grad_output == grad(out, inp, Arg(Strs(cc)), Arg(Strs(dd)))
        summed == NablaScalarLoop(grad_output, inp, Strs(dd), 1, Zero,
                                  grad_output.engine, 1)
    IN IF grad_output.err # "ok" THEN Counted(grad_output, 1)
       ELSE IF summed.err # "ok" THEN summed
       ELSE Counted(Ok(<<"dd" \o AsStr(cc[1])>>, summed.cols, summed.engine),
                    summed.grads)

RECURSIVE NablaVectorLoop(_, _, _, _, _, _, _, _, _)
\* the loop over the zipped (ci, di) pairs; cols / labels are the result so far
NablaVectorLoop(out, inp, cc, dd, idx, cols, labels, engine, grads) ==
    IF idx > Len(cc)
    THEN IF SetLabels(cols, labels).ok THEN Counted(Ok(labels, cols, engine), grads)
         ELSE Counted(Fail("LabelError", 209, engine), grads)
    ELSE LET ci == cc[idx].v
             di == dd[idx].v
             grad_output == grad(out, inp, Arg(ci), Arg(di))
             second == grad(grad_output, inp, NoArg, Arg(di))
             flat == Len(inp.rows) * Len(second.cols)
         IN IF grad_output.err # "ok"
            THEN Counted(Fail(grad_output.err, grad_output.site,
                              engine + grad_output.engine), grads + 1)
            ELSE IF second.err # "ok"
            THEN Counted(Fail(second.err, second.site,
                              engine + grad_output.engine + second.engine),
                         grads + 2)
            ELSE IF flat # Len(inp.rows) /\ flat # 1
            THEN Counted(Fail("ShapeError", 205,
                              engine + grad_output.engine + second.engine),
                         grads + 2)
            ELSE NablaVectorLoop(out, inp, cc, dd, idx + 1,
                     Append(cols, second.cols[1]),
                     Append(labels, "dd" \o PyStr(ci) \o "dd" \o PyStr(di)),
                     engine + grad_output.engine + second.engine, grads + 2)

\* variant: no exception for a single component
LengthsRejected_NoScalarCase(cc, dd) == Len(cc) # Len(dd)

\* the check of line 175
LengthsRejected(cc, dd) == Len(cc) # Len(dd) /\ Len(cc) # 1

\* variant: the method is examined before the lengths
nabla_MethodFirst(out, inp, comps, darg, meth) ==
    IF ~ darg.given /\ ~ inp.lt THEN Counted(Fail("AttributeError", 170, 0), 0)
    ELSE LET dd == IF darg.given THEN darg.val ELSE Singles(inp.labels)
             cc == IF comps.given THEN comps.val ELSE Singles(out.labels)
         IN IF meth = "divgrad"
            THEN Counted(Fail("NotImplementedError", 179, 0), 0)
            ELSE IF LengthsRejected(cc, dd)
            THEN Counted(Fail("ValueError", 176, 0), 0)
            ELSE IF meth = "std"
            THEN IF Len(cc) = 1 THEN NablaScalar(out, inp, cc, dd)
                 ELSE NablaVectorLoop(out, inp, cc, dd, 1, <<>>, <<>>, 0, 0)
            ELSE Counted(Fail("UnboundLocalError", 208, 0), 0)

\* variant: every method other than 'divgrad' takes the 'std' branch
nabla_ElseStd(out, inp, comps, darg, meth) ==
    IF ~ darg.given /\ ~ inp.lt THEN Counted(Fail("AttributeError", 170, 0), 0)
    ELSE LET dd == IF darg.given THEN darg.val ELSE Singles(inp.labels)
             cc == IF comps.given THEN comps.val ELSE Singles(out.labels)
         IN IF LengthsRejected(cc, dd)
            THEN Counted(Fail("ValueError", 176, 0), 0)
            ELSE IF meth = "divgrad"
            THEN Counted(Fail("NotImplementedError", 179, 0), 0)
            ELSE IF Len(cc) = 1 THEN NablaScalar(out, inp, cc, dd)
            ELSE NablaVectorLoop(out, inp, cc, dd, 1, <<>>, <<>>, 0, 0)

nabla(out, inp, comps, darg, meth) ==
    IF ~ darg.given /\ ~ inp.lt THEN Counted(Fail("AttributeError", 170, 0), 0)
    ELSE LET dd == IF darg.given THEN darg.val ELSE Singles(inp.labels)
             cc == IF comps.given THEN comps.val ELSE Singles(out.labels)
         IN IF LengthsRejected(cc, dd)
            THEN Counted(Fail("ValueError", 176, 0), 0)
            ELSE IF meth = "divgrad"
            THEN Counted(Fail("NotImplementedError", 179, 0), 0)
            ELSE IF meth = "std"
            THEN IF Len(cc) = 1 THEN NablaScalar(out, inp, cc, dd)
                 ELSE NablaVectorLoop(out, inp, cc, dd, 1, <<>>, <<>>, 0, 0)
            ELSE Counted(Fail("UnboundLocalError", 208, 0), 0)

(***************************************************************************)
(* advection                                                               *)
(***************************************************************************)
RECURSIVE Dot_CoordinateMajor(_, _, _, _, _, _)
\* variant: the gradient columns are read as a (coordinate, component) grid
Dot_CoordinateMajor(gcols, vcols, k, P, pt, j) ==
    IF j > P THEN 0
    ELSE Eval(gcols[(j - 1) * (Len(gcols) \div P) + k], pt)
           * Eval(vcols[IF Len(vcols) = 1 THEN 1 ELSE j], pt)
         + Dot_CoordinateMajor(gcols, vcols, k, P, pt, j + 1)

RECURSIVE Dot(_, _, _, _, _, _)
\* sum over the coordinate axis of velocity times gradient, for one
\* component k at one input point
Dot(gcols, vcols, k, P, pt, j) ==
    IF j > P THEN 0
    ELSE Eval(gcols[(k - 1) * P + j], pt)
           * Eval(vcols[IF Len(vcols) = 1 THEN 1 ELSE j], pt)
         + Dot(gcols, vcols, k, P, pt, j + 1)

\* tmp.sum(dim=2).T : one row per input point, one column per component
AdvectionVals(gcols, vcols, K, P, rows) ==
    [n \in 1..Len(rows) |-> [k \in 1..K |-> Dot(gcols, vcols, k, P, rows[n], 1)]]

advection(out, inp, velocity, comps, darg) ==
    IF ~ darg.given /\ ~ inp.lt
    THEN [err |-> "AttributeError", site |-> 234, vals |-> <<>>, engine |-> 0,
          grads |-> 0]
    ELSE LET dd == IF darg.given THEN darg.val ELSE inp.labels
             cc == IF comps.given THEN comps.val ELSE out.labels
             tmp == grad(out, inp, Arg(cc), Arg(dd))
             vel == extract(out, velocity)
             failed(kind, line) ==
                 [err |-> kind, site |-> line, vals |-> <<>>,
                  engine |-> tmp.engine, grads |-> 1]
         IN IF tmp.err # "ok" THEN failed(tmp.err, tmp.site)
            ELSE IF Len(cc) * Len(dd) = 0 THEN failed("ShapeError", 240)
            ELSE IF ~ vel.ok THEN failed("LabelError", 242)
            ELSE IF Len(vel.cols) # Len(dd) /\ Len(vel.cols) # 1
            THEN failed("ShapeError", 242)
            ELSE [err |-> "ok", site |-> 0,
                  vals |-> AdvectionVals(tmp.cols, vel.cols, Len(cc), Len(dd),
                                         inp.rows),
                  engine |-> tmp.engine, grads |-> 1]

(***************************************************************************)
(* Inputs.                                                                 *)
(***************************************************************************)
\* labels a caller may name: "w" and "z" are labels of no tensor
CompLabels == {"u", "v", "w"}

CoordLabels == {"x", "y", "z"}

VelocityLabels == {"u", "v"}

Methods == {"std", "divgrad", "fd"}

\* the functions an output column may hold
X1sq == Mono(1, 2, 0)

X1cube == PAdd(Mono(1, 3, 0), Mono(2, 1, 0))

Paraboloid == PAdd(Mono(1, 2, 0), Mono(1, 0, 2))

Mixed == PAdd(Mono(1, 2, 1), Mono(1, 1, 2))

Fields(P) == IF P = 1 THEN {X1sq, X1cube} ELSE {X1cube, Paraboloid, Mixed}

\* the n-th evaluation point of an input with P columns
Point(n, P) == IF P = 1 THEN <<n>> ELSE <<n, 2 * n - 1>>

Inputs ==
    {[lt |-> lt, labels |-> IF lt THEN ls ELSE <<>>,
      rows |-> [n \in 1..N |-> Point(n, Len(ls))]] :
        lt \in BOOLEAN, ls \in {<<"x">>, <<"x", "y">>}, N \in 1..MaxRows}

Outputs(P) ==
    {[labels |-> ls, cols |-> cs] :
        ls \in {<<>>}, cs \in {<<>>}}
    \cup {[labels |-> <<"u">>, cols |-> <<f>>] : f \in Fields(P)}
    \cup {[labels |-> <<"u", "v">>, cols |-> <<f, g>>] :
            f \in Fields(P), g \in Fields(P)}

Lists(S) == UNION {[1..n -> S] : n \in 0..MaxLen}

\* a selection of labels in request order: no label named twice
Selections(S) == {s \in Lists(S) : Distinct(s)}

OptSelections(S) == {NoArg} \cup {Arg(s) : s \in Selections(S)}

OptLists(S) == {NoArg} \cup {Arg(s) : s \in Lists(S)}

CompItems == {Single("u"), Single("v"), List(<<"u", "v">>)}

CoordItems == {Single("x"), Single("y"), List(<<"x", "y">>)}

NoResult ==
    [err |-> "none", site |-> 0, labels |-> <<>>, cols |-> <<>>, vals |-> <<>>,
     engine |-> 0, grads |-> 0]

\* what the caller observes of a grad / div / nabla call
Returned(r, rows) ==
    [err |-> r.err, site |-> r.site, labels |-> r.labels, cols |-> r.cols,
     vals |-> IF r.err = "ok" THEN Vals(r.cols, rows) ELSE <<>>,
     engine |-> r.engine, grads |-> r.grads]

Init ==
    /\ input_ \in Inputs
    /\ output_ \in Outputs(Len(input_.rows[1]))
    /\ op = "init"
    /\ components = NoArg
    /\ d = NoArg
    /\ method = "std"
    /\ velocity_field = <<>>
    /\ result = NoResult

CallGrad ==
    /\ op = "init"
    /\ \E c \in OptSelections(CompLabels), dd \in OptSelections(CoordLabels) :
         /\ components' = c
         /\ d' = dd
         /\ result' = Returned(Counted(grad(output_, input_, c, dd), 1),
                               input_.rows)
    /\ op' = "grad"
    /\ UNCHANGED <<output_, input_, method, velocity_field>>

CallDiv ==
    /\ op = "init"
    /\ \E c \in OptSelections(CompLabels), dd \in OptSelections(CoordLabels) :
         /\ components' = c
         /\ d' = dd
         /\ result' = Returned(div(output_, input_, c, dd), input_.rows)
    /\ op' = "div"
    /\ UNCHANGED <<output_, input_, method, velocity_field>>

CallNabla ==
    /\ op = "init"
    /\ \E c \in OptLists(CompItems), dd \in OptLists(CoordItems),
          m \in Methods :
         /\ components' = c
         /\ d' = dd
         /\ method' = m
         /\ result' = Returned(nabla(output_, input_, c, dd, m), input_.rows)
    /\ op' = "nabla"
    /\ UNCHANGED <<output_, input_, velocity_field>>

CallAdvection ==
    /\ op = "init"
    /\ \E c \in OptSelections(CompLabels), dd \in OptSelections(CoordLabels),
          vf \in Selections(VelocityLabels) \ {<<>>} :
         /\ components' = c
         /\ d' = dd
         /\ velocity_field' = vf
         /\ result' = LET r == advection(output_, input_, vf, c, dd)
                       IN [NoResult EXCEPT !.err = r.err, !.site = r.site,
                                           !.vals = r.vals, !.engine = r.engine,
                                           !.grads = r.grads]
    /\ op' = "advection"
    /\ UNCHANGED <<output_, input_, method>>

Next == CallGrad \/ CallDiv \/ CallNabla \/ CallAdvection

Spec == Init /\ [][Next]_vars

SpecGrad == Init /\ [][CallGrad]_vars

SpecDiv == Init /\ [][CallDiv]_vars

SpecNabla == Init /\ [][CallNabla]_vars

SpecAdvection == Init /\ [][CallAdvection]_vars

(***************************************************************************)
(* Properties.                                                             *)
(***************************************************************************)
\* the arguments of a grad / div / advection call after defaults are applied
ReqComps == IF components.given THEN components.val ELSE output_.labels

ReqD == IF d.given THEN d.val ELSE input_.labels

\* the arguments of a nabla call after defaults are applied
NablaComps == IF components.given THEN components.val ELSE Singles(output_.labels)

NablaD == IF d.given THEN d.val ELSE Singles(input_.labels)

\* nabla can apply its defaults: d is passed or the input carries labels
DefaultsResolve == d.given \/ input_.lt

\* the function held by output column c, and the input column named x
Field(c) == output_.cols[IndexOf(output_.labels, c)]

Axis(x) == IndexOf(input_.labels, x)

Rows == Len(input_.rows)

\* C1: a successful grad call returns len(components) x len(d) columns whose
\* labels are exactly d{c}d{di} for c in components for di in d, component
\* major, in request order, with no label twice; for one-column and for
\* wider outputs alike.
C1_GradLabels ==
    (op = "grad" /\ result.err = "ok") =>
        LET K == Len(ReqComps)
            P == Len(ReqD)
        IN /\ Len(result.labels) = K * P
           /\ Len(result.vals) = Rows
           /\ \A n \in 1..Rows : Len(result.vals[n]) = K * P
           /\ \A k \in 1..K, j \in 1..P :
                result.labels[(k - 1) * P + j]
                    = "d" \o ReqComps[k] \o "d" \o ReqD[j]
           /\ \A a, b \in 1..Len(result.labels) :
                a # b => result.labels[a] # result.labels[b]

C1_Witness ==
    /\ op = "grad"
    /\ result.err = "ok"
    /\ output_.labels = <<"u", "v">>
    /\ components = Arg(<<"v", "u">>)
    /\ d = Arg(<<"y", "x">>)
    /\ result.labels = <<"dvdy", "dvdx", "dudy", "dudx">>

\* C2 as stated: with method = 'divgrad' every nabla call on labelled tensors
\* raises NotImplementedError, whatever the lengths of components and d.
C2_DivgradAlwaysNotImplemented ==
    (op = "nabla" /\ method = "divgrad" /\ input_.lt) =>
        result.err = "NotImplementedError"

\* C2 amended: with method = 'divgrad' a nabla call raises NotImplementedError
\* when len(components) = len(d) or len(components) = 1, and ValueError (from
\* the length check, which comes first) otherwise.
C2_DivgradAfterLengthCheck ==
    (op = "nabla" /\ method = "divgrad" /\ DefaultsResolve) =>
        IF Len(NablaComps) # Len(NablaD) /\ Len(NablaComps) # 1
        THEN result.err = "ValueError" /\ result.site = 176
        ELSE result.err = "NotImplementedError" /\ result.site = 179

C2_Witness ==
    /\ op = "nabla"
    /\ method = "divgrad"
    /\ input_.lt
    /\ Len(NablaComps) = 2
    /\ Len(NablaD) = 2
    /\ result.err = "NotImplementedError"

\* C3: div raises TypeError for an input that is no LabelTensor, before any
\* other check; with a LabelTensor input it raises ValueError when fewer than
\* 2 components are requested and when len(components) # len(d), so it
\* succeeds only if len(components) = len(d) >= 2.
C3_DivPreconditions ==
    op = "div" =>
        /\ ~ input_.lt => (result.err = "TypeError" /\ result.grads = 0)
        /\ input_.lt =>
             /\ Len(ReqComps) < 2 => result.err = "ValueError"
             /\ Len(ReqComps) # Len(ReqD) => result.err = "ValueError"
             /\ result.err = "ok" =>
                  (Len(ReqComps) = Len(ReqD) /\ Len(ReqComps) >= 2)

C3_Witness ==
    /\ op = "div"
    /\ input_.lt
    /\ Len(output_.labels) = 2
    /\ Len(ReqComps) = 1
    /\ Len(ReqD) = 1
    /\ result.err = "ValueError"

\* C4: nabla's own length check raises ValueError exactly when
\* len(components) # len(d) and len(components) # 1, after defaults.
C4_NablaLengthCheck ==
    (op = "nabla" /\ DefaultsResolve) =>
        ((result.err = "ValueError" /\ result.site = 176)
            <=> (Len(NablaComps) # Len(NablaD) /\ Len(NablaComps) # 1))

C4_Witness ==
    /\ op = "nabla"
    /\ input_.lt
    /\ Len(NablaComps) = 1
    /\ Len(NablaD) = 2
    /\ method = "std"
    /\ result.err = "ok"

RECURSIVE PairedSum(_, _, _, _)
\* sum over the pairs i.. of d(c_i)/d(d_i) at the input point pt
PairedSum(cc, dd, pt, i) ==
    IF i > Len(cc) THEN 0
    ELSE Eval(Partial(Field(cc[i]), Axis(dd[i])), pt) + PairedSum(cc, dd, pt, i + 1)

RECURSIVE PlusJoined(_, _, _)
PlusJoined(cc, dd, i) ==
    IF i = Len(cc) THEN "d" \o cc[i] \o "d" \o dd[i]
    ELSE "d" \o cc[i] \o "d" \o dd[i] \o "+" \o PlusJoined(cc, dd, i + 1)

\* C5: a successful div call returns one column with one row per input row;
\* its value is the sum of the paired terms d(c_i)/d(d_i) only, and its label
\* is the terms' labels joined with '+' in pairing order.
C5_DivPairedSum ==
    (op = "div" /\ result.err = "ok") =>
        /\ Len(result.vals) = Rows
        /\ \A n \in 1..Rows :
             result.vals[n] = <<PairedSum(ReqComps, ReqD, input_.rows[n], 1)>>
        /\ result.labels = <<PlusJoined(ReqComps, ReqD, 1)>>

C5_Witness ==
    /\ op = "div"
    /\ result.err = "ok"
    /\ components = Arg(<<"v", "u">>)
    /\ ReqD = <<"x", "y">>
    /\ output_.cols = <<Mixed, Mixed>>
    /\ Rows = 2
    /\ result.labels = <<"dvdx+dudy">>

RECURSIVE DiagonalSum(_, _, _, _)
\* sum over the coordinates i.. of the second derivative of f with respect to
\* x_i twice, at the input point pt
DiagonalSum(f, xs, pt, i) ==
    IF i > Len(xs) THEN 0
    ELSE Eval(Partial(Partial(f, Axis(xs[i])), Axis(xs[i])), pt)
         + DiagonalSum(f, xs, pt, i + 1)

\* a nabla call with one component label of the output and a non-empty list
\* of distinct coordinate labels of the input
ScalarNablaCall ==
    /\ op = "nabla"
    /\ method = "std"
    /\ input_.lt
    /\ Len(NablaComps) = 1
    /\ ~ NablaComps[1].list
    /\ In(NablaComps[1].v[1], output_.labels)
    /\ Len(NablaD) >= 1
    /\ \A i \in 1..Len(NablaD) :
         ~ NablaD[i].list /\ In(NablaD[i].v[1], input_.labels)
    /\ \A i, j \in 1..Len(NablaD) : i # j => NablaD[i] # NablaD[j]

\* C6: nabla with method 'std' and exactly one component c succeeds for every
\* non-empty coordinate list (one coordinate or several, one output column or
\* several) and returns the single column dd{c} holding the sum of the
\* diagonal second derivatives only.
C6_ScalarNabla ==
    ScalarNablaCall =>
        /\ result.err = "ok"
        /\ result.labels = <<"dd" \o NablaComps[1].v[1]>>
        /\ Len(result.vals) = Rows
        /\ \A n \in 1..Rows :
             result.vals[n] = <<DiagonalSum(Field(NablaComps[1].v[1]),
                                            Strs(NablaD), input_.rows[n], 1)>>

C6_Witness ==
    /\ ScalarNablaCall
    /\ Len(output_.labels) = 2
    /\ components = Arg(<<Single("v")>>)
    /\ d = Arg(<<Single("y")>>)
    /\ output_.cols[2] = Mixed
    /\ result.err = "ok"
    /\ result.labels = <<"ddv">>
    /\ result.vals[1] = <<2>>

\* a nabla call pairing two or more components with as many coordinates,
\* every label named being a label of the output / input, no pair twice
VectorNablaCall ==
    /\ op = "nabla"
    /\ method = "std"
    /\ input_.lt
    /\ Len(NablaComps) = Len(NablaD)
    /\ Len(NablaComps) > 1
    /\ \A i \in 1..Len(NablaComps) :
         /\ \A k \in 1..Len(NablaComps[i].v) : In(NablaComps[i].v[k], output_.labels)
         /\ \A k \in 1..Len(NablaD[i].v) : In(NablaD[i].v[k], input_.labels)
    /\ \A i, j \in 1..Len(NablaComps) :
         i # j => <<NablaComps[i].v, NablaD[i].v>> # <<NablaComps[j].v, NablaD[j].v>>

\* C7: nabla with method 'std' and len(components) = len(d) > 1 returns one
\* column per pair, whether the pair's component and coordinate are single
\* labels or lists of labels, column i labelled dd{components_i}dd{d_i} in
\* stringified list form.
C7_VectorNablaOneColumnPerPair ==
    VectorNablaCall =>
        /\ result.err = "ok"
        /\ Len(result.labels) = Len(NablaComps)
        /\ Len(result.vals) = Rows
        /\ \A n \in 1..Rows : Len(result.vals[n]) = Len(NablaComps)
        /\ \A i \in 1..Len(NablaComps) :
             result.labels[i]
                 = "dd" \o PyStr(NablaComps[i].v) \o "dd" \o PyStr(NablaD[i].v)

RECURSIVE Convective(_, _, _, _, _)
\* sum over the coordinates j.. of velocity_j times d(c)/d(d_j) at pt
Convective(c, dd, vf, pt, j) ==
    IF j > Len(dd) THEN 0
    ELSE Eval(Field(vf[j]), pt) * Eval(Partial(Field(c), Axis(dd[j])), pt)
         + Convective(c, dd, vf, pt, j + 1)

\* C8: a successful advection call whose velocity_field names len(d) columns
\* of the output returns one row per input point and one column per
\* component, entry (n, c) being the sum over j of velocity_j[n] times
\* d(c)/d(d_j)[n].
C8_Advection ==
    (op = "advection" /\ result.err = "ok"
       /\ Len(velocity_field) = Len(ReqD)) =>
        /\ Len(result.vals) = Rows
        /\ \A n \in 1..Rows :
             result.vals[n]
                 = [k \in 1..Len(ReqComps) |->
                      Convective(ReqComps[k], ReqD, velocity_field,
                                 input_.rows[n], 1)]

C8_Witness ==
    /\ op = "advection"
    /\ result.err = "ok"
    /\ Rows = 1
    /\ Len(ReqComps) = 2
    /\ ReqD = <<"y", "x">>
    /\ velocity_field = <<"v", "u">>
    /\ output_.cols = <<Paraboloid, Mixed>>

\* C9: grad with a LabelTensor input and a one-column output raises
\* RuntimeError whenever components is not the output's label list, without
\* calling the differentiation engine; with a zero-column output it raises
\* NotImplementedError.
C9_GradScalarSelection ==
    (op = "grad" /\ input_.lt) =>
        /\ (Len(output_.labels) = 1 /\ ReqComps # output_.labels) =>
              (result.err = "RuntimeError" /\ result.engine = 0)
        /\ Len(output_.labels) = 0 => result.err = "NotImplementedError"

C9_Witness ==
    /\ op = "grad"
    /\ input_.lt
    /\ output_.labels = <<"u">>
    /\ components = Arg(<<"u", "v">>)
    /\ ReqD = <<"x">>
    /\ result.err = "RuntimeError"
    /\ result.site = 76
    /\ result.engine = 0

\* C10: nabla with a method that is neither 'std' nor 'divgrad', and lengths
\* that pass the check, makes no grad call and no engine call, returns
\* nothing, and fails with an unbound-variable error, none of TypeError,
\* RuntimeError, ValueError, NotImplementedError.
C10_UnknownMethod ==
    (op = "nabla" /\ method \notin {"std", "divgrad"} /\ DefaultsResolve
       /\ ~ (Len(NablaComps) # Len(NablaD) /\ Len(NablaComps) # 1)) =>
        /\ result.err = "UnboundLocalError"
        /\ result.err \notin {"TypeError", "RuntimeError", "ValueError",
                              "NotImplementedError"}
        /\ result.grads = 0
        /\ result.engine = 0
        /\ result.labels = <<>>
        /\ result.vals = <<>>

C10_Witness ==
    /\ op = "nabla"
    /\ method = "fd"
    /\ input_.lt
    /\ Len(NablaComps) = 2
    /\ Len(NablaD) = 2
    /\ result.err = "UnboundLocalError"
    /\ result.site = 208

====
